---- MODULE Spec2Model ----
(***************************************************************************)
(* MetronomeEngine (src/src/metronome.py).  The caller's thread (the GTK   *)
(* main thread) calls start, stop, set_tempo, set_time_signature and       *)
(* reset_beat_counter; every start() spawns a Thread running _run_loop,    *)
(* which shares the engine's attributes with the caller without a lock.    *)
(* Each action is one step between two accesses of shared state.  Times    *)
(* are integers in ticks of 1/TicksPerSec second; the tempos drawn as      *)
(* inputs have a beat duration 60/bpm that is a whole number of ticks.     *)
(*                                                                         *)
(* Spec is the engine alone.  SinkSpec adds GLib's idle queue, to which   *)
(* the loop hands its beats; RestartSpec is SinkSpec's start and stop     *)
(* over a longer clock; RunSpec is one run of a loop that is on time;     *)
(* SteadySpec and StallSpec are one run with other limits on lateness;    *)
(* TempoSpec has a second caller of set_tempo; TapSpec is the window's    *)
(* TapTempo, on a clock of its own; PaceSpec is StallSpec with the clock  *)
(* value of each hand-off kept; ToleranceSpec is the end of an iteration  *)
(* with durations as exact fractions; LiveSpec is one run with the        *)
(* fairness of the clock and of the timing thread.                        *)
(***************************************************************************)
EXTENDS Integers, Sequences, FiniteSets, TLC

\* ---------------------------------------------------------------- bounds
MaxTime == 4
MaxRuns == 2
MaxThreads == 2
MaxCalls == 2
MaxRestartTime == 6
MaxRunTime == 9
MaxTapTime == 24

\* ticks of the modelled time.perf_counter() per second
TicksPerSec == 4

\* ticks of the clock TapTempo.tap() reads, per second
TapTicksPerSec == 10

\* ------------------------------------------------------ program constants
MinBpm == 40
MaxBpm == 240
MinBeatsPerBar == 1
MaxBeatsPerBar == 16
DefaultBpm == 120
DefaultBeatsPerBar == 4
DefaultBeatValue == 4
JoinTimeoutSec == 1
ToleranceDen == 1000
MaxTaps == 8
TapTimeoutSec == 2

BeatValues == {2, 4, 8, 16}

\* the ValueError messages
BpmError == "BPM must be between 40 and 240"
NumeratorError == "Time signature numerator must be 1-16"
DenominatorError == "Time signature denominator must be 2, 4, 8, or 16"

\* arguments the caller passes
BpmInputs == {39, 60, 241}
NumeratorInputs == {0, 3, 17}
DenominatorInputs == {3, 8}

\* arguments a second caller passes to set_tempo
PeerBpmInputs == {120, 241}

\* ticks of the tap clock between a tap and the call before it
TapGaps == {0, 1, 5, 7, 17, 20, 21}

Threads == 1..MaxThreads
NoThread == 0

VARIABLES
  bpm, beats_per_bar, beat_value, is_running, is_playing, current_beat,
  stop_event,       \* the flag of self._stop_event
  thread,           \* self._thread: NoThread or the Thread started last
  beat_callback,    \* TRUE when self.beat_callback is set
  next_beat_time,   \* self._next_beat_time (ticks)
  beat_duration,    \* self._beat_duration (ticks)
  now,              \* time.perf_counter() (ticks)
  loops,            \* per Thread: its place in _run_loop and its locals
  cpc,              \* the caller's place: "idle", "set_tempo", "join"
  c_bpm,            \* set_tempo's argument between its two stores
  join_deadline,    \* when stop()'s join(timeout=1.0) gives up
  result,           \* how the caller's last call ended: "ok", "early" (the
                    \* return at the top of start/stop) or the ValueError
  handoff,          \* arguments of the last GLib.idle_add(beat_callback, ..)
  runs,             \* start() calls that spawned a thread so far
  ordered,          \* history: since the last hand-off current_beat was not
                    \* reset and no second loop was alive
  idle_queue,       \* GLib's idle sources: the hand-offs not yet removed, in
                    \* the order of their idle_add, with the calls made so far
  awaited,          \* history: "start" or "reset" when start() or
                    \* reset_beat_counter() came after the last hand-off
  tap_times,        \* TapTempo.tap_times (ticks of the tap clock)
  tap_now,          \* time.perf_counter() as tap() read it last
  tap_result,       \* how the last tap() ended
  tap_held,         \* history: len(tap_times) when the last tap() began
  peer_bpm,         \* a second caller's set_tempo argument between its two
                    \* stores, 0 outside such a call
  emitted_at        \* history: the clock at the last hand-off of PaceSpec,
                    \* -1 before the first

\* what the engine's own steps leave to the observing specifications
sink == <<idle_queue, awaited>>

\* the window's TapTempo, which no step of the engine touches
tapper == <<tap_times, tap_now, tap_result, tap_held>>

vars == <<bpm, beats_per_bar, beat_value, is_running, is_playing, current_beat,
          stop_event, thread, beat_callback, next_beat_time, beat_duration,
          now, loops, cpc, c_bpm, join_deadline, result, handoff, runs,
          ordered, sink, tapper, peer_bpm, emitted_at>>

\* everything but the clock, the caller's frame and the last call's result
engine == <<bpm, beats_per_bar, beat_value, is_running, is_playing,
            current_beat, stop_event, thread, beat_callback, next_beat_time,
            beat_duration, loops, handoff, runs, ordered, sink, tapper, peer_bpm,
            emitted_at>>

CallerFrame == <<cpc, c_bpm, join_deadline>>

\* what no step of _run_loop writes
LoopFrame == <<bpm, beats_per_bar, beat_value, is_running, is_playing,
               stop_event, thread, beat_callback, now, CallerFrame, result,
               runs>>

NoBeat == [beat |-> -1, is_downbeat |-> FALSE]

DeadLoop == [pc |-> "dead", is_downbeat |-> FALSE, tmp |-> 0, wake |-> 0,
             notified |-> FALSE, new_duration |-> 0]

Alive(t) == loops[t].pc # "dead"

\* a plausible slip: the duration is not recomputed from the argument
BeatDurationStale(b) == (60 * TicksPerSec) \div DefaultBpm

\* 60.0 / bpm, in ticks
BeatDuration(b) == (60 * TicksPerSec) \div b

Abs(x) == IF x < 0 THEN -x ELSE x

\* what tap() gives back: None, an int, or the exception it ends with
NoEstimate == [kind |-> "None", value |-> 0]
Estimate(n) == [kind |-> "int", value |-> n]
Raised(e) == [kind |-> e, value |-> 0]

\* ----------------------------------------------------------------- Init
Init ==
  /\ bpm = DefaultBpm
  /\ beats_per_bar = DefaultBeatsPerBar
  /\ beat_value = DefaultBeatValue
  /\ is_running = FALSE
  /\ is_playing = FALSE
  /\ current_beat = 0
  /\ stop_event = FALSE
  /\ thread = NoThread
  /\ beat_callback = FALSE
  /\ next_beat_time = 0
  /\ beat_duration = BeatDuration(DefaultBpm)
  /\ now = 0
  /\ loops = [t \in Threads |-> DeadLoop]
  /\ cpc = "idle"
  /\ c_bpm = 0
  /\ join_deadline = 0
  /\ result = "ok"
  /\ handoff = NoBeat
  /\ runs = 0
  /\ ordered = FALSE
  /\ idle_queue = <<>>
  /\ awaited = "none"
  /\ tap_times = <<>>
  /\ tap_now = 0
  /\ tap_result = NoEstimate
  /\ tap_held = 0
  /\ peer_bpm = 0
  /\ emitted_at = -1

\* the clock advances, up to the bound of the specification
TickTo(limit) ==
  /\ now < limit
  /\ now' = now + 1
  /\ UNCHANGED <<engine, CallerFrame, result>>

Tick == TickTo(MaxTime)

\* ------------------------------------------------------- caller's thread
\* the window: self.metronome.beat_callback = self._on_beat
set_beat_callback ==
  /\ cpc = "idle"
  /\ ~beat_callback
  /\ beat_callback' = TRUE
  /\ result' = "ok"
  /\ UNCHANGED <<bpm, beats_per_bar, beat_value, is_running, is_playing,
                 current_beat, stop_event, thread, next_beat_time,
                 beat_duration, now, loops, CallerFrame, handoff, runs,
                 ordered, sink, tapper, peer_bpm, emitted_at>>

\* the Thread object start() creates: one that is not alive stands for it
FreeThread ==
  CHOOSE t \in Threads : ~Alive(t) /\ \A u \in Threads : ~Alive(u) => t <= u

\* start() on a stopped engine: lines 56-63
SpawnThread ==
  /\ \E t \in Threads : ~Alive(t)
  /\ runs < MaxRuns
  /\ runs' = runs + 1
  /\ result' = "ok"
  /\ is_running' = TRUE
  /\ is_playing' = TRUE
  /\ current_beat' = 0
  /\ stop_event' = FALSE
  /\ thread' = FreeThread
  /\ loops' = [loops EXCEPT ![FreeThread] = [DeadLoop EXCEPT !.pc = "init_read"]]
  /\ ordered' = FALSE
  /\ UNCHANGED <<bpm, beats_per_bar, beat_value, beat_callback,
                 next_beat_time, beat_duration, handoff, now, CallerFrame>>

Spawn == SpawnThread /\ UNCHANGED <<sink, tapper, peer_bpm, emitted_at>>

\* a plausible slip: start() without its is_running guard
start_unguarded ==
  /\ cpc = "idle"
  /\ Spawn

start ==
  /\ cpc = "idle"
  /\ IF is_running
       THEN /\ result' = "early"
            /\ UNCHANGED <<engine, now, CallerFrame>>
       ELSE Spawn

\* a plausible slip: a sleep that Event.set() does not interrupt
NotifiedNobody(ls) == ls

\* Event.set(): every thread blocked in wait() is notified
Notified(ls) ==
  [t \in Threads |-> IF ls[t].pc = "waiting"
                       THEN [ls[t] EXCEPT !.notified = TRUE]
                       ELSE ls[t]]

\* join(timeout=1.0) gives up this many ticks after it was entered
JoinTimeout == JoinTimeoutSec * TicksPerSec

\* stop() on a running engine, up to the join
Halt ==
  /\ result' = "ok"
  /\ is_running' = FALSE
  /\ is_playing' = FALSE
  /\ stop_event' = TRUE
  /\ loops' = Notified(loops)
  /\ cpc' = "join"
  /\ join_deadline' = now + JoinTimeout
  /\ UNCHANGED <<bpm, beats_per_bar, beat_value, current_beat, thread,
                 beat_callback, next_beat_time, beat_duration, handoff,
                 now, c_bpm, runs, ordered, sink, tapper, peer_bpm, emitted_at>>

\* a plausible slip: stop() without its is_running guard
stop_unguarded ==
  /\ cpc = "idle"
  /\ Halt

stop ==
  /\ cpc = "idle"
  /\ IF ~is_running
       THEN /\ result' = "early"
            /\ UNCHANGED <<engine, now, CallerFrame>>
       ELSE Halt

\* stop() once join() is over, whichever way it ended
AfterJoin ==
  /\ thread' = NoThread
  /\ cpc' = "idle"
  /\ join_deadline' = 0
  /\ UNCHANGED <<bpm, beats_per_bar, beat_value, is_running, is_playing,
                 current_beat, stop_event, beat_callback, next_beat_time,
                 beat_duration, handoff, loops, now, c_bpm, result, runs,
                 ordered, sink, tapper, peer_bpm, emitted_at>>

\* stop(): the thread has finished (or was not alive), stop() returns
stop_joined ==
  /\ cpc = "join"
  /\ thread = NoThread \/ ~Alive(thread)
  /\ AfterJoin

\* stop(): join() timed out with the thread still alive, stop() returns
stop_join_timeout ==
  /\ cpc = "join"
  /\ thread # NoThread
  /\ Alive(thread)
  /\ now >= join_deadline
  /\ AfterJoin

\* a plausible slip: the lower bound off by one
ValidBpmLoose(b) == MinBpm - 1 <= b /\ b <= MaxBpm

\* a plausible slip: the limits themselves are refused
ValidBpmExclusive(b) == MinBpm < b /\ b < MaxBpm

ValidBpm(b) == MinBpm <= b /\ b <= MaxBpm

\* set_tempo(b): the check and the store of state.bpm
set_tempo(b) ==
  /\ cpc = "idle"
  /\ IF ~ValidBpm(b)
       THEN /\ result' = BpmError
            /\ UNCHANGED <<engine, now, CallerFrame>>
       ELSE /\ result' = "ok"
            /\ bpm' = b
            /\ cpc' = "set_tempo"
            /\ c_bpm' = b
            /\ UNCHANGED <<beats_per_bar, beat_value, is_running, is_playing,
                           current_beat, stop_event, thread, beat_callback,
                           next_beat_time, beat_duration, handoff, loops, now,
                           join_deadline, runs, ordered, sink, tapper, peer_bpm, emitted_at>>

\* set_tempo(b): the store of self._beat_duration, and the return
set_tempo_duration ==
  /\ cpc = "set_tempo"
  /\ beat_duration' = BeatDuration(c_bpm)
  /\ cpc' = "idle"
  /\ c_bpm' = 0
  /\ UNCHANGED <<bpm, beats_per_bar, beat_value, is_running, is_playing,
                 current_beat, stop_event, thread, beat_callback,
                 next_beat_time, handoff, loops, now, join_deadline, result,
                 runs, ordered, sink, tapper, peer_bpm, emitted_at>>

ValidNumerator(n) == MinBeatsPerBar <= n /\ n <= MaxBeatsPerBar

ValidDenominator(d) == d \in BeatValues

\* a plausible slip: the numerator is stored before the denominator's check
set_time_signature_partial(n, d) ==
  /\ cpc = "idle"
  /\ IF ~ValidNumerator(n)
       THEN /\ result' = NumeratorError
            /\ UNCHANGED <<engine, now, CallerFrame>>
       ELSE /\ beats_per_bar' = n
            /\ IF ~ValidDenominator(d)
                 THEN result' = DenominatorError /\ beat_value' = beat_value
                 ELSE result' = "ok" /\ beat_value' = d
            /\ UNCHANGED <<bpm, is_running, is_playing, current_beat,
                           stop_event, thread, beat_callback, next_beat_time,
                           beat_duration, handoff, loops, now, CallerFrame,
                           runs, ordered, sink, tapper, peer_bpm, emitted_at>>

\* a plausible slip: the two stores swapped
set_time_signature_swapped(n, d) ==
  /\ cpc = "idle"
  /\ IF ~ValidNumerator(n) \/ ~ValidDenominator(d)
       THEN /\ result' = IF ~ValidNumerator(n) THEN NumeratorError
                                              ELSE DenominatorError
            /\ UNCHANGED <<engine, now, CallerFrame>>
       ELSE /\ result' = "ok"
            /\ beats_per_bar' = d
            /\ beat_value' = n
            /\ UNCHANGED <<bpm, is_running, is_playing, current_beat,
                           stop_event, thread, beat_callback, next_beat_time,
                           beat_duration, handoff, loops, now, CallerFrame,
                           runs, ordered, sink, tapper, peer_bpm, emitted_at>>

set_time_signature(n, d) ==
  /\ cpc = "idle"
  /\ IF ~ValidNumerator(n) \/ ~ValidDenominator(d)
       THEN /\ result' = IF ~ValidNumerator(n) THEN NumeratorError
                                              ELSE DenominatorError
            /\ UNCHANGED <<engine, now, CallerFrame>>
       ELSE /\ result' = "ok"
            /\ beats_per_bar' = n
            /\ beat_value' = d
            /\ UNCHANGED <<bpm, is_running, is_playing, current_beat,
                           stop_event, thread, beat_callback, next_beat_time,
                           beat_duration, handoff, loops, now, CallerFrame,
                           runs, ordered, sink, tapper, peer_bpm, emitted_at>>

ResetCounter ==
  /\ cpc = "idle"
  /\ result' = "ok"
  /\ current_beat' = 0
  /\ ordered' = FALSE
  /\ UNCHANGED <<bpm, beats_per_bar, beat_value, is_running, is_playing,
                 stop_event, thread, beat_callback, next_beat_time,
                 beat_duration, handoff, loops, now, CallerFrame, runs>>

reset_beat_counter == ResetCounter /\ UNCHANGED <<sink, tapper, peer_bpm, emitted_at>>


\* ------------------------------------------------------------ _run_loop
Goto(t, p) == [loops EXCEPT ![t].pc = p]

\* the thread's function returns: the Thread is no longer alive
Exit(t) == [loops EXCEPT ![t] = DeadLoop]

\* self._beat_duration = 60.0 / self.state.bpm : the load of state.bpm
loop_init_read(t) ==
  /\ loops[t].pc = "init_read"
  /\ loops' = [loops EXCEPT ![t].pc = "init_write",
                            ![t].new_duration = BeatDuration(bpm)]
  /\ UNCHANGED <<LoopFrame, current_beat, next_beat_time, beat_duration,
                 handoff, ordered, sink, tapper, peer_bpm, emitted_at>>

\* ... and the store of self._beat_duration
loop_init_write(t) ==
  /\ loops[t].pc = "init_write"
  /\ beat_duration' = loops[t].new_duration
  /\ loops' = [loops EXCEPT ![t].pc = "init_deadline", ![t].new_duration = 0]
  /\ UNCHANGED <<LoopFrame, current_beat, next_beat_time, handoff, ordered, sink, tapper, peer_bpm, emitted_at>>

\* a plausible slip: the first beat is due at once
loop_init_deadline_immediate(t) ==
  /\ loops[t].pc = "init_deadline"
  /\ next_beat_time' = now
  /\ loops' = Goto(t, "while")
  /\ UNCHANGED <<LoopFrame, current_beat, beat_duration, handoff, ordered, sink, tapper, peer_bpm, emitted_at>>

\* self._next_beat_time = time.perf_counter() + self._beat_duration
loop_init_deadline(t) ==
  /\ loops[t].pc = "init_deadline"
  /\ next_beat_time' = now + beat_duration
  /\ loops' = Goto(t, "while")
  /\ UNCHANGED <<LoopFrame, current_beat, beat_duration, handoff, ordered, sink, tapper, peer_bpm, emitted_at>>

\* while not self._stop_event.is_set(): wait_time = next - now; if it is
\* positive the thread enters self._stop_event.wait(wait_time)
loop_while(t) ==
  /\ loops[t].pc = "while"
  /\ loops' = IF stop_event
                THEN Exit(t)
                ELSE IF next_beat_time - now > 0
                       THEN [loops EXCEPT ![t].pc = "waiting",
                                          ![t].wake = next_beat_time,
                                          ![t].notified = FALSE]
                       ELSE Goto(t, "check_stop")
  /\ UNCHANGED <<LoopFrame, current_beat, next_beat_time, beat_duration,
                 handoff, ordered, sink, tapper, peer_bpm, emitted_at>>

\* self._stop_event.wait(wait_time) returns True: break
loop_wait_signalled(t) ==
  /\ loops[t].pc = "waiting"
  /\ loops[t].notified
  /\ loops' = Exit(t)
  /\ UNCHANGED <<LoopFrame, current_beat, next_beat_time, beat_duration,
                 handoff, ordered, sink, tapper, peer_bpm, emitted_at>>

\* a plausible slip: a wait without its timeout, which only the stop signal
\* ends
loop_wait_untimed(t) ==
  /\ loops[t].pc = "waiting"
  /\ loops[t].notified
  /\ loops' = Exit(t)
  /\ UNCHANGED <<LoopFrame, current_beat, next_beat_time, beat_duration,
                 handoff, ordered, sink, tapper, peer_bpm, emitted_at>>

\* self._stop_event.wait(wait_time) times out, at the deadline or later
loop_wait_timeout(t) ==
  /\ loops[t].pc = "waiting"
  /\ ~loops[t].notified
  /\ now >= loops[t].wake
  /\ loops' = [loops EXCEPT ![t].pc = "check_stop", ![t].wake = 0]
  /\ UNCHANGED <<LoopFrame, current_beat, next_beat_time, beat_duration,
                 handoff, ordered, sink, tapper, peer_bpm, emitted_at>>

\* a plausible slip: the event is not tested again after the wait
loop_check_stop_skipped(t) ==
  /\ loops[t].pc = "check_stop"
  /\ loops' = Goto(t, "stall")
  /\ UNCHANGED <<LoopFrame, current_beat, next_beat_time, beat_duration,
                 handoff, ordered, sink, tapper, peer_bpm, emitted_at>>

\* if self._stop_event.is_set(): break
loop_check_stop(t) ==
  /\ loops[t].pc = "check_stop"
  /\ loops' = IF stop_event THEN Exit(t) ELSE Goto(t, "stall")
  /\ UNCHANGED <<LoopFrame, current_beat, next_beat_time, beat_duration,
                 handoff, ordered, sink, tapper, peer_bpm, emitted_at>>

\* a plausible slip: a loop exactly one beat behind restarts its deadline too
loop_stall_eager(t) ==
  /\ loops[t].pc = "stall"
  /\ next_beat_time' = IF now >= next_beat_time + beat_duration
                         THEN now ELSE next_beat_time
  /\ loops' = Goto(t, "downbeat")
  /\ UNCHANGED <<LoopFrame, current_beat, beat_duration, handoff, ordered, sink, tapper, peer_bpm, emitted_at>>

\* a plausible slip: the deadline is never restarted
loop_stall_never(t) ==
  /\ loops[t].pc = "stall"
  /\ loops' = Goto(t, "downbeat")
  /\ UNCHANGED <<LoopFrame, current_beat, next_beat_time, beat_duration,
                 handoff, ordered, sink, tapper, peer_bpm, emitted_at>>

\* more than one beat behind: the deadline restarts from the clock
loop_stall(t) ==
  /\ loops[t].pc = "stall"
  /\ next_beat_time' = IF now > next_beat_time + beat_duration
                         THEN now ELSE next_beat_time
  /\ loops' = Goto(t, "downbeat")
  /\ UNCHANGED <<LoopFrame, current_beat, beat_duration, handoff, ordered, sink, tapper, peer_bpm, emitted_at>>

IsDownbeat(beat, bars) == (beat % bars) = 0

\* is_downbeat = (current_beat % beats_per_bar) == 0
loop_downbeat(t) ==
  /\ loops[t].pc = "downbeat"
  /\ loops' = [loops EXCEPT ![t].pc = "emit",
                            ![t].is_downbeat = IsDownbeat(current_beat, beats_per_bar)]
  /\ UNCHANGED <<LoopFrame, current_beat, next_beat_time, beat_duration,
                 handoff, ordered, sink, tapper, peer_bpm, emitted_at>>

\* if self.beat_callback: GLib.idle_add(beat_callback, current_beat, is_downbeat)
Emit(t) ==
  /\ loops[t].pc = "emit"
  /\ IF beat_callback
       THEN /\ handoff' = [beat |-> current_beat,
                           is_downbeat |-> loops[t].is_downbeat]
            /\ ordered' = \A u \in Threads \ {t} : ~Alive(u)
       ELSE UNCHANGED <<handoff, ordered>>
  /\ loops' = [loops EXCEPT ![t].pc = "inc_read", ![t].is_downbeat = FALSE]
  /\ UNCHANGED <<LoopFrame, current_beat, next_beat_time, beat_duration>>

\* ... with the GLib side left out
loop_emit(t) == Emit(t) /\ UNCHANGED <<sink, tapper, peer_bpm, emitted_at>>

\* self.state.current_beat += 1 : the load
loop_inc_read(t) ==
  /\ loops[t].pc = "inc_read"
  /\ loops' = [loops EXCEPT ![t].pc = "inc_write", ![t].tmp = current_beat]
  /\ UNCHANGED <<LoopFrame, current_beat, next_beat_time, beat_duration,
                 handoff, ordered, sink, tapper, peer_bpm, emitted_at>>

\* a plausible slip: the counter is stored back without the increment
IncrementedLost(n) == n

\* the value current_beat += 1 stores
Incremented(n) == n + 1

\* ... and the store
loop_inc_write(t) ==
  /\ loops[t].pc = "inc_write"
  /\ current_beat' = Incremented(loops[t].tmp)
  /\ loops' = [loops EXCEPT ![t].pc = "advance", ![t].tmp = 0]
  /\ UNCHANGED <<LoopFrame, next_beat_time, beat_duration, handoff, ordered, sink, tapper, peer_bpm, emitted_at>>

\* a plausible slip: the next deadline is counted from the clock, not from
\* the deadline before it
loop_advance_relative(t) ==
  /\ loops[t].pc = "advance"
  /\ next_beat_time' = now + beat_duration
  /\ loops' = Goto(t, "recalc")
  /\ UNCHANGED <<LoopFrame, current_beat, beat_duration, handoff, ordered, sink, tapper, peer_bpm, emitted_at>>

\* self._next_beat_time += self._beat_duration
loop_advance(t) ==
  /\ loops[t].pc = "advance"
  /\ next_beat_time' = next_beat_time + beat_duration
  /\ loops' = Goto(t, "recalc")
  /\ UNCHANGED <<LoopFrame, current_beat, beat_duration, handoff, ordered, sink, tapper, peer_bpm, emitted_at>>

\* abs(new_duration - self._beat_duration) > 0.001, both sides in ticks
TempoChanged(new_duration, old_duration) ==
  Abs(new_duration - old_duration) * ToleranceDen > TicksPerSec

\* new_duration = 60.0 / self.state.bpm : the load of state.bpm
loop_recalc_read(t) ==
  /\ loops[t].pc = "recalc"
  /\ loops' = [loops EXCEPT ![t].pc = "recalc_store",
                            ![t].new_duration = BeatDuration(bpm)]
  /\ UNCHANGED <<LoopFrame, current_beat, next_beat_time, beat_duration,
                 handoff, ordered, sink, tapper, peer_bpm, emitted_at>>

\* ... stored if it differs from self._beat_duration by more than 1 ms
loop_recalc(t) ==
  /\ loops[t].pc = "recalc_store"
  /\ beat_duration' = IF TempoChanged(loops[t].new_duration, beat_duration)
                        THEN loops[t].new_duration ELSE beat_duration
  /\ loops' = [loops EXCEPT ![t].pc = "while", ![t].new_duration = 0]
  /\ UNCHANGED <<LoopFrame, current_beat, next_beat_time, handoff, ordered, sink, tapper, peer_bpm, emitted_at>>

run_loop(t) ==
  \/ loop_init_read(t)
  \/ loop_init_write(t)
  \/ loop_init_deadline(t)
  \/ loop_while(t)
  \/ loop_wait_signalled(t)
  \/ loop_wait_timeout(t)
  \/ loop_check_stop(t)
  \/ loop_stall(t)
  \/ loop_downbeat(t)
  \/ loop_emit(t)
  \/ loop_inc_read(t)
  \/ loop_inc_write(t)
  \/ loop_advance(t)
  \/ loop_recalc_read(t)
  \/ loop_recalc(t)

Next ==
  \/ Tick
  \/ set_beat_callback
  \/ start
  \/ stop
  \/ stop_joined
  \/ stop_join_timeout
  \/ \E b \in BpmInputs : set_tempo(b)
  \/ set_tempo_duration
  \/ \E n \in NumeratorInputs, d \in DenominatorInputs : set_time_signature(n, d)
  \/ reset_beat_counter
  \/ \E t \in Threads : run_loop(t)

Spec == Init /\ [][Next]_vars

\* ------------------------------------------------- the engine with its sink
\* SinkSpec adds what Spec leaves out: the window registers its callback
\* before the first start(), every hand-off attaches an idle source to GLib's
\* main loop, and the main loop, which runs on the caller's thread, calls
\* the callback of a pending source whenever that thread is not inside a
\* call of the engine.  Tempo and time signature stay at their defaults.

\* what a callback can do when GLib calls it: return a false value (None,
\* False), return a true value, or raise
CallbackOutcomes == {"false", "true", "raise"}

\* a plausible slip: a callback that raised is taken to have asked to stay
KeptUnlessFalse(outcome) == outcome # "false"

\* GLib keeps an idle source only when its callback returned a true value
Kept(outcome) == outcome = "true"

\* self.metronome.beat_callback = self._on_beat, in the window's __init__
window_init ==
  /\ runs = 0
  /\ set_beat_callback

observed_start ==
  /\ cpc = "idle"
  /\ ~is_running
  /\ SpawnThread
  /\ awaited' = "start"
  /\ UNCHANGED <<idle_queue, tapper, peer_bpm, emitted_at>>

observed_reset ==
  /\ ResetCounter
  /\ awaited' = IF is_running /\ awaited # "start" THEN "reset" ELSE awaited
  /\ UNCHANGED <<idle_queue, tapper, peer_bpm, emitted_at>>

\* GLib.idle_add(self.beat_callback, current_beat, is_downbeat)
Attach(t) ==
  /\ Emit(t)
  /\ IF beat_callback
       THEN /\ idle_queue' = Append(idle_queue,
                                    [beat |-> current_beat,
                                     is_downbeat |-> loops[t].is_downbeat,
                                     calls |-> 0])
            /\ awaited' = "none"
       ELSE UNCHANGED sink
  /\ UNCHANGED <<tapper, peer_bpm, emitted_at>>

\* a plausible slip: the loop waits until the sink has taken the beat before
\* it hands over the next one
observed_emit_blocking(t) ==
  /\ idle_queue = <<>>
  /\ Attach(t)

observed_emit(t) == Attach(t)

Without(q, i) == [j \in 1..(Len(q) - 1) |-> IF j < i THEN q[j] ELSE q[j + 1]]

\* the main loop calls the callback of the i-th pending source
dispatch(i, outcome) ==
  /\ cpc = "idle"
  /\ i \in DOMAIN idle_queue
  /\ idle_queue[i].calls < MaxCalls
  /\ idle_queue' = IF Kept(outcome)
                     THEN [idle_queue EXCEPT ![i].calls = @ + 1]
                     ELSE Without(idle_queue, i)
  /\ UNCHANGED <<bpm, beats_per_bar, beat_value, is_running, is_playing,
                 current_beat, stop_event, thread, beat_callback,
                 next_beat_time, beat_duration, now, loops, CallerFrame,
                 result, handoff, runs, ordered, awaited, tapper, peer_bpm, emitted_at>>

observed_loop(t) ==
  \/ loop_init_read(t)
  \/ loop_init_write(t)
  \/ loop_init_deadline(t)
  \/ loop_while(t)
  \/ loop_wait_signalled(t)
  \/ loop_wait_timeout(t)
  \/ loop_check_stop(t)
  \/ loop_stall(t)
  \/ loop_downbeat(t)
  \/ observed_emit(t)
  \/ loop_inc_read(t)
  \/ loop_inc_write(t)
  \/ loop_advance(t)
  \/ loop_recalc_read(t)
  \/ loop_recalc(t)

SinkNext ==
  \/ Tick
  \/ window_init
  \/ observed_start
  \/ stop
  \/ stop_joined
  \/ stop_join_timeout
  \/ observed_reset
  \/ \E t \in Threads : observed_loop(t)
  \/ \E i \in 1..Len(idle_queue), outcome \in CallbackOutcomes :
       dispatch(i, outcome)

SinkSpec == Init /\ [][SinkNext]_vars

\* ------------------------------------------------ a stop() that gives up
\* RestartSpec follows start() and stop() over a clock long enough for a
\* beat to fire before a stop() whose join times out.
long_tick == TickTo(MaxRestartTime)

RestartNext ==
  \/ long_tick
  \/ window_init
  \/ observed_start
  \/ stop
  \/ stop_joined
  \/ stop_join_timeout
  \/ \E t \in Threads : observed_loop(t)

RestartSpec == Init /\ [][RestartNext]_vars

\* ----------------------------------------------------- one run, on time
\* RunSpec is one run of a fresh engine at its defaults (120 bpm, 4/4),
\* started at clock value 0, whose loop starts at once and is never a whole
\* beat period late; the main loop calls no callback, so idle_queue lists
\* every beat of the run.

\* the deadline of the beat thread t has yet to hand off
PendingDeadline(t) ==
  IF loops[t].pc \in {"inc_read", "inc_write", "advance"}
    THEN next_beat_time + beat_duration
    ELSE next_beat_time

\* thread t has read the clock for its first deadline
Initialised(t) == loops[t].pc \notin {"init_read", "init_write", "init_deadline"}

run_tick ==
  /\ \A t \in Threads :
        Alive(t) => /\ Initialised(t)
                    /\ (now + 1) - PendingDeadline(t) < beat_duration
  /\ TickTo(MaxRunTime)

run_start ==
  /\ now = 0
  /\ beat_callback
  /\ observed_start

\* 2.1 s, in ticks
ScenarioStop == (21 * TicksPerSec) \div 10

\* stop() 2.1 s after start(), when every beat due by then has fired
scenario_stop ==
  /\ now = ScenarioStop
  /\ next_beat_time > now
  /\ stop

RunNext ==
  \/ run_tick
  \/ window_init
  \/ run_start
  \/ scenario_stop
  \/ stop_joined
  \/ \E t \in Threads : observed_loop(t)

RunSpec == Init /\ [][RunNext]_vars

\* -------------------------------------------------------------- TapTempo
\* TapTempo() as the window builds it: max_taps = 8, timeout = 2.0 s.
TapTimeout == TapTimeoutSec * TapTicksPerSec

\* a plausible slip: nothing is dropped for its age
PrunedNever(times, cutoff_time) == times

\* [t for t in self.tap_times if t > cutoff_time]
Pruned(times, cutoff_time) == SelectSeq(times, LAMBDA t : t > cutoff_time)

\* a plausible slip: the oldest max_taps are kept
TruncatedOldest(times) ==
  IF Len(times) > MaxTaps THEN SubSeq(times, 1, MaxTaps) ELSE times

\* self.tap_times[-self.max_taps:] when there are more than max_taps
Truncated(times) ==
  IF Len(times) > MaxTaps
    THEN SubSeq(times, Len(times) - MaxTaps + 1, Len(times))
    ELSE times

\* the list of tap_times[i] - tap_times[i-1]
Intervals(times) == [i \in 1..(Len(times) - 1) |-> times[i + 1] - times[i]]

RECURSIVE Sum(_)
Sum(seq) == IF seq = <<>> THEN 0 ELSE seq[1] + Sum(Tail(seq))

\* round(num / den) as Python rounds: to the nearest integer, a tie to the
\* even one (num >= 0, den > 0)
Round(num, den) ==
  LET q == num \div den
      r == num % den
  IN  IF 2 * r < den THEN q
      ELSE IF 2 * r > den THEN q + 1
      ELSE IF q % 2 = 0 THEN q ELSE q + 1

Max(a, b) == IF a > b THEN a ELSE b
Min(a, b) == IF a < b THEN a ELSE b

\* a plausible slip: the upper limit is left out
ClampBelow(n) == Max(MinBpm, n)

\* max(40, min(240, n))
Clamp(n) == Max(MinBpm, Min(MaxBpm, n))

\* lines 241-259: the value tap() ends with for the retained timestamps;
\* 60.0 / (sum(intervals) / len(intervals)) is 60 * len / sum, with sum in
\* ticks of the tap clock
Calculated(times) ==
  IF Len(times) < 2 THEN NoEstimate
  ELSE LET intervals == Intervals(times)
       IN  IF Sum(intervals) = 0
             THEN Raised("ZeroDivisionError")
             ELSE Estimate(Clamp(Round(60 * TapTicksPerSec * Len(intervals),
                                       Sum(intervals))))

\* tap(), gap ticks after the call before it
tap(gap) ==
  /\ tap_now + gap <= MaxTapTime
  /\ LET current_time == tap_now + gap
          cutoff_time == current_time - TapTimeout
          retained == Truncated(Append(Pruned(tap_times, cutoff_time),
                                       current_time))
     IN  /\ tap_now' = current_time
         /\ tap_times' = retained
         /\ tap_result' = Calculated(retained)
  /\ tap_held' = Len(tap_times)
  /\ UNCHANGED <<bpm, beats_per_bar, beat_value, is_running, is_playing,
                 current_beat, stop_event, thread, beat_callback,
                 next_beat_time, beat_duration, now, loops, CallerFrame,
                 result, handoff, runs, ordered, sink, peer_bpm, emitted_at>>

\* a plausible slip: the newest timestamp survives the reset
tap_reset_keeping_last ==
  /\ tap_times # <<>>
  /\ tap_times' = <<tap_times[Len(tap_times)]>>
  /\ UNCHANGED <<bpm, beats_per_bar, beat_value, is_running, is_playing,
                 current_beat, stop_event, thread, beat_callback,
                 next_beat_time, beat_duration, now, loops, CallerFrame,
                 result, handoff, runs, ordered, sink, tap_now, tap_result,
                 tap_held, peer_bpm, emitted_at>>

\* reset()
tap_reset ==
  /\ tap_times # <<>>
  /\ tap_times' = <<>>
  /\ UNCHANGED <<bpm, beats_per_bar, beat_value, is_running, is_playing,
                 current_beat, stop_event, thread, beat_callback,
                 next_beat_time, beat_duration, now, loops, CallerFrame,
                 result, handoff, runs, ordered, sink, tap_now, tap_result,
                 tap_held, peer_bpm, emitted_at>>

\* get_tap_count()
get_tap_count == Len(tap_times)

TapNext ==
  \/ \E gap \in TapGaps : tap(gap)
  \/ tap_reset

TapSpec == Init /\ [][TapNext]_vars

\* ------------------------------------------------- two callers of set_tempo
\* TempoSpec has a second thread that calls set_tempo next to the caller of
\* Spec, as the threads of test_thread_safety do.

\* set_tempo(b) by the second caller: the check and the store of state.bpm;
\* a refused argument raises in that thread and stores nothing
peer_set_tempo(b) ==
  /\ peer_bpm = 0
  /\ ValidBpm(b)
  /\ bpm' = b
  /\ peer_bpm' = b
  /\ UNCHANGED <<beats_per_bar, beat_value, is_running, is_playing,
                 current_beat, stop_event, thread, beat_callback,
                 next_beat_time, beat_duration, handoff, loops, now,
                 CallerFrame, result, runs, ordered, sink, tapper,
                 emitted_at>>

\* ... its store of self._beat_duration, and the return
peer_set_tempo_duration ==
  /\ peer_bpm # 0
  /\ beat_duration' = BeatDuration(peer_bpm)
  /\ peer_bpm' = 0
  /\ UNCHANGED <<bpm, beats_per_bar, beat_value, is_running, is_playing,
                 current_beat, stop_event, thread, beat_callback,
                 next_beat_time, handoff, loops, now, CallerFrame, result,
                 runs, ordered, sink, tapper, emitted_at>>

TempoNext ==
  \/ Tick
  \/ start
  \/ stop
  \/ stop_joined
  \/ stop_join_timeout
  \/ \E b \in BpmInputs : set_tempo(b)
  \/ set_tempo_duration
  \/ \E b \in PeerBpmInputs : peer_set_tempo(b)
  \/ peer_set_tempo_duration
  \/ \E t \in Threads : run_loop(t)

TempoSpec == Init /\ [][TempoNext]_vars

\* ------------------------------------------- one run, at most a beat late
\* SteadySpec is RunSpec with a loop that may wake up to a whole beat period
\* after its deadline, a stop() at any time and changes of the time
\* signature; the tempo stays at its default.
steady_tick ==
  /\ \A t \in Threads :
        Alive(t) => /\ Initialised(t)
                    /\ (now + 1) - PendingDeadline(t) <= beat_duration
  /\ TickTo(MaxRunTime)

SteadyNext ==
  \/ steady_tick
  \/ window_init
  \/ run_start
  \/ \E n \in NumeratorInputs, d \in DenominatorInputs : set_time_signature(n, d)
  \/ stop
  \/ stop_joined
  \/ \E t \in Threads : observed_loop(t)

SteadySpec == Init /\ [][SteadyNext]_vars

\* ------------------------------------------------- one run, with stalls
\* StallSpec is one run whose thread can be held for any time where it
\* sleeps or is about to read the clock (lines 127-142), and whose steps
\* from the clock reading of line 142 to the end of the iteration take no
\* time.

\* thread t is between line 142 and the end of its iteration
InBody(t) ==
  loops[t].pc \in {"downbeat", "emit", "inc_read", "inc_write", "advance",
                   "recalc", "recalc_store"}

stall_tick ==
  /\ \A t \in Threads : Alive(t) => (Initialised(t) /\ ~InBody(t))
  /\ TickTo(MaxRunTime)

StallNext ==
  \/ stall_tick
  \/ window_init
  \/ run_start
  \/ stop
  \/ stop_joined
  \/ \E t \in Threads : observed_loop(t)

StallSpec == Init /\ [][StallNext]_vars


\* ------------------------------------------- one run, hand-offs clocked
\* PaceSpec is StallSpec with the clock value of each hand-off recorded.

\* GLib.idle_add(...), with the clock value of the call kept in emitted_at
paced_emit(t) ==
  /\ Emit(t)
  /\ IF beat_callback
       THEN /\ idle_queue' = Append(idle_queue,
                                    [beat |-> current_beat,
                                     is_downbeat |-> loops[t].is_downbeat,
                                     calls |-> 0])
            /\ awaited' = "none"
            /\ emitted_at' = now
       ELSE UNCHANGED <<sink, emitted_at>>
  /\ UNCHANGED <<tapper, peer_bpm>>

paced_loop(t) ==
  \/ loop_init_read(t)
  \/ loop_init_write(t)
  \/ loop_init_deadline(t)
  \/ loop_while(t)
  \/ loop_wait_signalled(t)
  \/ loop_wait_timeout(t)
  \/ loop_check_stop(t)
  \/ loop_stall(t)
  \/ loop_downbeat(t)
  \/ paced_emit(t)
  \/ loop_inc_read(t)
  \/ loop_inc_write(t)
  \/ loop_advance(t)
  \/ loop_recalc_read(t)
  \/ loop_recalc(t)

PaceNext ==
  \/ stall_tick
  \/ window_init
  \/ run_start
  \/ stop
  \/ stop_joined
  \/ \E t \in Threads : paced_loop(t)

PaceSpec == Init /\ [][PaceNext]_vars


\* --------------------------------------- the tolerance, in exact seconds
\* ToleranceSpec follows lines 162-164 with durations kept as exact
\* fractions of a second, for every tempo that can be stored in state.bpm
\* and every tempo the stored duration can come from, next to a caller of
\* set_tempo. The gap between two durations of different tempos is at least
\* 60/239 - 60/240 = 1.046 ms, far above what rounding 60.0 / bpm to a
\* double can move.

\* the tempos set_tempo accepts
TempoRange == MinBpm..MaxBpm

\* the arguments of the caller in ToleranceSpec: the two tempos whose
\* durations are closest
NearbyTempos == {MaxBpm - 1, MaxBpm}

\* 60.0 / bpm, as a fraction
Seconds(b) == [num |-> 60, den |-> b]

\* a plausible slip: a tolerance of 2 ms
ExceedsToleranceCoarse(x, y) ==
  Abs(x.num * y.den - y.num * x.den) * ToleranceDen > 2 * x.den * y.den

\* abs(x - y) > 0.001
ExceedsTolerance(x, y) ==
  Abs(x.num * y.den - y.num * x.den) * ToleranceDen > x.den * y.den

ToleranceInit ==
  /\ bpm \in TempoRange
  /\ beat_duration \in {Seconds(a) : a \in TempoRange}
  /\ beats_per_bar = DefaultBeatsPerBar
  /\ beat_value = DefaultBeatValue
  /\ is_running = TRUE
  /\ is_playing = TRUE
  /\ current_beat = 0
  /\ stop_event = FALSE
  /\ thread = 1
  /\ beat_callback = FALSE
  /\ next_beat_time = 0
  /\ now = 0
  /\ loops = [t \in Threads |-> IF t = 1 THEN [DeadLoop EXCEPT !.pc = "recalc"]
                                         ELSE DeadLoop]
  /\ cpc = "idle"
  /\ c_bpm = 0
  /\ join_deadline = 0
  /\ result = "ok"
  /\ handoff = NoBeat
  /\ runs = 1
  /\ ordered = FALSE
  /\ idle_queue = <<>>
  /\ awaited = "none"
  /\ tap_times = <<>>
  /\ tap_now = 0
  /\ tap_result = NoEstimate
  /\ tap_held = 0
  /\ peer_bpm = 0
  /\ emitted_at = -1

\* set_tempo(b): the check and the store of state.bpm
exact_set_tempo(b) ==
  /\ cpc = "idle"
  /\ ValidBpm(b)
  /\ bpm' = b
  /\ c_bpm' = b
  /\ cpc' = "set_tempo"
  /\ result' = "ok"
  /\ UNCHANGED <<beats_per_bar, beat_value, is_running, is_playing,
                 current_beat, stop_event, thread, beat_callback,
                 next_beat_time, beat_duration, handoff, loops, now,
                 join_deadline, runs, ordered, sink, tapper, peer_bpm,
                 emitted_at>>

\* ... its store of self._beat_duration = 60.0 / bpm, and the return
exact_set_tempo_duration ==
  /\ cpc = "set_tempo"
  /\ beat_duration' = Seconds(c_bpm)
  /\ c_bpm' = 0
  /\ cpc' = "idle"
  /\ UNCHANGED <<bpm, beats_per_bar, beat_value, is_running, is_playing,
                 current_beat, stop_event, thread, beat_callback,
                 next_beat_time, handoff, loops, now, join_deadline, result,
                 runs, ordered, sink, tapper, peer_bpm, emitted_at>>

\* new_duration = 60.0 / self.state.bpm
exact_recalc_read(t) ==
  /\ loops[t].pc = "recalc"
  /\ loops' = [loops EXCEPT ![t].pc = "recalc_store",
                            ![t].new_duration = Seconds(bpm)]
  /\ UNCHANGED <<LoopFrame, current_beat, next_beat_time, beat_duration,
                 handoff, ordered, sink, tapper, peer_bpm, emitted_at>>

\* if abs(new_duration - self._beat_duration) > 0.001: store it; the
\* iteration is over
exact_recalc(t) ==
  /\ loops[t].pc = "recalc_store"
  /\ beat_duration' = IF ExceedsTolerance(loops[t].new_duration, beat_duration)
                        THEN loops[t].new_duration ELSE beat_duration
  /\ loops' = Goto(t, "while")
  /\ UNCHANGED <<LoopFrame, current_beat, next_beat_time, handoff, ordered,
                 sink, tapper, peer_bpm, emitted_at>>

ToleranceNext ==
  \/ \E b \in NearbyTempos : exact_set_tempo(b)
  \/ exact_set_tempo_duration
  \/ \E t \in Threads : exact_recalc_read(t)
  \/ \E t \in Threads : exact_recalc(t)

ToleranceSpec == ToleranceInit /\ [][ToleranceNext]_vars


\* ------------------------------------------------ one run, with fairness
\* LiveSpec is one run in which the caller changes the tempo and the time
\* signature and resets the beat counter at will before it calls stop(), if
\* it ever does. The clock advances whenever the timing thread sleeps ahead of its
\* deadline and the thread takes its next step whenever it has one: the
\* steps of the thread take no clock time and its waits end on time.

\* the clock moves while a thread sleeps in its timed wait
live_tick ==
  /\ \E t \in Threads : loops[t].pc = "waiting" /\ now < loops[t].wake
  /\ TickTo(MaxRunTime)

LiveNext ==
  \/ live_tick
  \/ window_init
  \/ run_start
  \/ \E b \in BpmInputs : set_tempo(b)
  \/ set_tempo_duration
  \/ \E n \in NumeratorInputs, d \in DenominatorInputs : set_time_signature(n, d)
  \/ observed_reset
  \/ stop
  \/ stop_joined
  \/ \E t \in Threads : observed_loop(t)

\* the clock advances; the timing thread is scheduled
LiveFairness ==
  /\ WF_vars(live_tick)
  /\ \A t \in Threads : WF_vars(observed_loop(t))

LiveSpec == Init /\ [][LiveNext]_vars /\ LiveFairness


\* ================================================================ claims
\* thread t hands a beat to the sink in this step (the GLib.idle_add call)
HandsOff(t) ==
  /\ beat_callback
  /\ loops[t].pc = "emit"
  /\ loops'[t].pc = "inc_read"

\* stop() has returned and start() has not been called since
StoppedAndReturned == cpc = "idle" /\ ~is_running /\ runs > 0

\* C1 (the claim as stated): once stop() has returned, no timing loop hands
\* a beat to the sink until start() is called again.
NoBeatAfterStopReturned ==
  [][StoppedAndReturned => \A t \in Threads : ~HandsOff(t)]_vars

\* C2 (the claim as stated): every beat handed to the sink carries
\* is_downbeat = (beat mod beats_per_bar = 0), for the index handed over and
\* the beats_per_bar in force at the hand-off.
DownbeatMatchesIndex ==
  [][\A t \in Threads :
       HandsOff(t) =>
         handoff'.is_downbeat = ((handoff'.beat % beats_per_bar) = 0)]_vars

InvalidTempoRejected ==
  [][\A b \in BpmInputs :
       ((b < MinBpm \/ b > MaxBpm) /\ set_tempo(b))
         => /\ result' = BpmError
            /\ UNCHANGED <<bpm, beat_duration, beats_per_bar, beat_value,
                           current_beat, is_running, next_beat_time>>]_vars

\* C4 witness: a running engine at 60 bpm has just refused a tempo
TempoRefusedWhileRunning ==
  /\ result = BpmError
  /\ is_running
  /\ bpm = 60
  /\ \E t \in Threads : Alive(t)

\* C5: set_tempo(b) with 40 <= b <= 240 does not raise, and when it returns
\* bpm is b and the beat duration is 60/b, stopped or running.
ValidTempoStored ==
  [][/\ \A b \in BpmInputs :
          (MinBpm <= b /\ b <= MaxBpm /\ set_tempo(b))
            => (result' = "ok" /\ bpm' = b /\ c_bpm' = b)
     /\ set_tempo_duration
          => /\ cpc' = "idle"
             /\ result' = "ok"
             /\ bpm' = c_bpm
             /\ beat_duration' * c_bpm = 60 * TicksPerSec]_vars

\* C5 witness: set_tempo(60) has returned on an engine whose loop is alive
TempoStoredWhileRunning ==
  /\ cpc = "idle"
  /\ result = "ok"
  /\ is_running
  /\ bpm = 60
  /\ beat_duration * bpm = 60 * TicksPerSec
  /\ \E t \in Threads : loops[t].pc = "waiting"

\* C6: set_time_signature(n, d) with n outside 1..16 or d outside {2,4,8,16}
\* raises and changes neither beats_per_bar nor beat_value, also when only
\* one of the two arguments is invalid.
InvalidTimeSignatureRejected ==
  [][\A n \in NumeratorInputs, d \in DenominatorInputs :
       ((n < 1 \/ n > 16 \/ d \notin {2, 4, 8, 16}) /\ set_time_signature(n, d))
         => /\ result' \in {NumeratorError, DenominatorError}
            /\ UNCHANGED <<beats_per_bar, beat_value>>]_vars

\* C6 witness: a valid numerator (3) came with an invalid denominator and
\* the default 4/4 is still in place
DenominatorRefusedAlone ==
  /\ result = DenominatorError
  /\ beats_per_bar = DefaultBeatsPerBar
  /\ beat_value = DefaultBeatValue

\* C7: set_time_signature(n, d) with n in 1..16 and d in {2,4,8,16} does not
\* raise and stores beats_per_bar = n and beat_value = d, leaving bpm,
\* current_beat, is_running and the deadline unchanged.
ValidTimeSignatureStored ==
  [][\A n \in NumeratorInputs, d \in DenominatorInputs :
       (1 <= n /\ n <= 16 /\ d \in {2, 4, 8, 16} /\ set_time_signature(n, d))
         => /\ result' = "ok"
            /\ beats_per_bar' = n
            /\ beat_value' = d
            /\ UNCHANGED <<bpm, current_beat, is_running, next_beat_time>>]_vars

\* C7 witness: 3/8 stored while the engine runs past its first beat
TimeSignatureStoredWhileRunning ==
  /\ result = "ok"
  /\ beats_per_bar = 3
  /\ beat_value = 8
  /\ is_running
  /\ current_beat > 0

\* C8: bpm stays in [40,240], beats_per_bar in [1,16] and beat_value in
\* {2,4,8,16} in every reachable state.
TempoSpecInBounds ==
  /\ 40 <= bpm /\ bpm <= 240
  /\ 1 <= beats_per_bar /\ beats_per_bar <= 16
  /\ beat_value \in {2, 4, 8, 16}

\* C8 witness: both setters have changed the spec, an invalid request was
\* refused, and a loop is about to divide by beats_per_bar
BoundsAfterRefusal ==
  /\ bpm = 60
  /\ beats_per_bar = 3
  /\ result = NumeratorError
  /\ \E t \in Threads : loops[t].pc = "downbeat"

\* C9: start() on a running engine creates no thread and leaves
\* current_beat, the stop signal and the deadline untouched.
StartWhileRunningIsNoOp ==
  [][(is_running /\ start)
       => UNCHANGED <<loops, thread, current_beat, stop_event,
                      next_beat_time, is_running, runs>>]_vars

\* C9 witness: start() took its early return with beats already counted
StartedTwice == result = "early" /\ is_running /\ current_beat > 0

\* C10: stop() on a stopped engine, fresh or not, leaves is_running, the
\* stop signal, the thread handle, current_beat and the tempo and time
\* signature untouched.
StopWhileStoppedIsNoOp ==
  [][(~is_running /\ stop)
       => UNCHANGED <<is_running, is_playing, stop_event, thread, loops,
                      current_beat, bpm, beats_per_bar, beat_value, cpc>>]_vars

\* C10 witness: stop() took its early return on an engine never started
StoppedFresh == result = "early" /\ ~is_running /\ runs = 0

\* C12 (the claim as stated): at most one timing loop is alive at any time.
AtMostOneLoopAlive == Cardinality({t \in Threads : Alive(t)}) <= 1

\* C13: a loop suspended in its timed wait while the stop signal is set can
\* leave the wait at once, whatever remains of the wait, and the step it
\* takes ends the loop; once the thread has ended, stop() can return.
WaitWokenByStop ==
  /\ \A t \in Threads :
        (loops[t].pc = "waiting" /\ stop_event)
          => ENABLED (loop_wait_signalled(t) /\ loops'[t].pc = "dead")
  /\ (cpc = "join" /\ thread # NoThread /\ ~Alive(thread))
        => ENABLED stop_joined

\* C13 witness: stop() is in its join and has just woken its loop out of a
\* wait that still had time to run
StopWokeTheWait ==
  /\ cpc = "join"
  /\ thread # NoThread
  /\ loops[thread].pc = "waiting"
  /\ loops[thread].notified
  /\ now < loops[thread].wake

\* C14 (the claim as stated): when the join expires with the loop still
\* alive, stop() does not return normally.
StopFailureSurfaced ==
  [][stop_join_timeout => result' # "ok"]_vars

\* C11 (the claim as stated): start() sets is_running and resets current_beat
\* to 0 in the step that begins the run, and the first beat handed off after
\* a start() has index 0 and is_downbeat true.
FirstBeatIsDownbeatZero ==
  [][/\ (runs' # runs) => (is_running' /\ current_beat' = 0)
     /\ \A t \in Threads :
          (HandsOff(t) /\ awaited = "start")
            => (current_beat = 0 /\ loops[t].is_downbeat)]_vars

\* C15 (the claim as stated): the first beat handed off after a
\* reset_beat_counter() that returned on a running engine has index 0, and
\* the call leaves is_running and the timing thread alone.
ResetNeverLost ==
  [][/\ (awaited' = "reset" /\ awaited # "reset")
          => UNCHANGED <<is_running, thread, loops>>
     /\ \A t \in Threads :
          (HandsOff(t) /\ awaited = "reset") => current_beat = 0]_vars

LoopIgnoresSink ==
  [][/\ \A t \in Threads :
          loops[t].pc = "emit" => ENABLED observed_emit(t)
     /\ \A i \in 1..Len(idle_queue), outcome \in CallbackOutcomes :
          dispatch(i, outcome)
            => UNCHANGED <<bpm, beats_per_bar, beat_value, is_running,
                           is_playing, current_beat, stop_event, thread,
                           beat_callback, next_beat_time, beat_duration,
                           now, loops>>]_vars

\* C19 witness: the loop has handed off its second beat while the first is
\* still with the main loop, its callback called once and asking to stay
SecondBeatWhileFirstPending ==
  /\ Len(idle_queue) = 2
  /\ idle_queue[1].beat = 0
  /\ idle_queue[1].calls = 1
  /\ idle_queue[2].beat = 1

\* C17 (the claim as stated): while a run at constant tempo lasts, the beats
\* handed off so far, k, and the time run so far, T, satisfy
\* |k - T / period| <= 1, for a loop that is never a whole period late.
DriftWithinOneBeat ==
  is_running => Abs(Len(idle_queue) * beat_duration - now) <= beat_duration

\* C17 (amended): under the same conditions |k - T / period| < 2, whatever
\* the length of the run.
DriftBelowTwoBeats ==
  is_running => Abs(Len(idle_queue) * beat_duration - now) < 2 * beat_duration

\* C17 witness: 1.75 s into the run the third beat, due at 1.5 s, is late
\* and two beats have been handed off
ThirdBeatLate ==
  /\ is_running
  /\ now = 7
  /\ Len(idle_queue) = 2
  /\ next_beat_time = 6

TapReturnsClampedMean ==
  [][\A gap \in TapGaps :
       tap(gap) =>
         LET n == Len(tap_times')
             span == tap_times'[n] - tap_times'[1]
         IN  IF n < 2
               THEN tap_result' = NoEstimate
               ELSE /\ tap_result'.kind = "int"
                    /\ span > 0 =>
                         tap_result'.value =
                           Clamp(Round(60 * TapTicksPerSec * (n - 1), span))]_vars

\* C21: every estimate tap() returns is an integer from 40 to 240.
EstimateWithinLimits ==
  tap_result.kind = "int" => tap_result.value \in MinBpm..MaxBpm

\* C21 witness: two taps 0.1 s apart (600 a minute) gave 240
FastTapsGiveUpperLimit ==
  /\ Len(tap_times) = 2
  /\ tap_times[2] - tap_times[1] = 1
  /\ tap_result = Estimate(MaxBpm)

\* C22 (the claim as stated): every tap() ends by returning None or an int.
TapNeverFails == tap_result.kind \in {"None", "int"}

\* C23: a tap() made more than the timeout after the tap before it returns
\* None and retains its own timestamp alone, whatever was retained before.
TapAfterTimeoutIsFirstTap ==
  [][\A gap \in TapGaps :
       (gap > TapTimeout /\ tap(gap))
         => (tap_result' = NoEstimate /\ tap_times' = <<tap_now'>>)]_vars

\* C23 witness: a tap() that began with several timestamps retained and
\* came more than the timeout after the last of them
LateTapDroppedTheWindow ==
  /\ tap_held >= 2
  /\ tap_times = <<tap_now>>
  /\ tap_result = NoEstimate

\* C24: reset() leaves no timestamp (get_tap_count() is 0, as on a new
\* TapTempo), and the tap() after it returns None and retains one timestamp.
ResetGivesFreshEstimator ==
  [][/\ tap_reset => (tap_times' = <<>> /\ get_tap_count' = 0)
     /\ \A gap \in TapGaps :
          (tap_times = <<>> /\ tap(gap))
            => (tap_result' = NoEstimate /\ tap_times' = <<tap_now'>>)]_vars

\* C24 witness: reset() has emptied an estimator that had given an estimate
ResetAfterEstimate ==
  /\ tap_times = <<>>
  /\ get_tap_count = 0
  /\ tap_result.kind = "int"

\* C27 (the claim as stated): set_tempo leaves the committed deadline and the
\* beat index alone, and once it has returned every deadline the running
\* loop commits lies 60 / bpm after the one before.
TempoChangeTakesEffect ==
  [][/\ ((\E b \in BpmInputs : set_tempo(b)) \/ set_tempo_duration)
          => UNCHANGED <<next_beat_time, current_beat>>
     /\ \A t \in Threads :
          (/\ is_running
           /\ cpc = "idle"
           /\ thread = t
           /\ loops[t].pc = "advance"
           /\ loops'[t].pc = "recalc")
            => next_beat_time' = next_beat_time + BeatDuration(bpm)]_vars

\* C30 (the claim as stated): with no set_tempo call in progress, the beat
\* duration the running loop uses for a deadline is 60 / bpm.
TempoStateConsistent ==
  [][\A t \in Threads :
       (/\ is_running
        /\ thread = t
        /\ cpc = "idle"
        /\ peer_bpm = 0
        /\ loops[t].pc \in {"init_deadline", "advance"}
        /\ loops'[t].pc # loops[t].pc)
         => beat_duration = BeatDuration(bpm)]_vars

\* C25: in a run at constant tempo started at clock value t0 = 0, with no
\* wake-up more than a beat period late, the deadline in force once k beats
\* have been emitted is t0 + (k + 1) * beat_duration (k = 0: the first beat
\* is due one period after the start).
DeadlineAccumulates ==
  \A t \in Threads :
    (Alive(t) /\ Initialised(t)
       /\ loops[t].pc \notin {"inc_read", "inc_write", "advance"})
      => next_beat_time = (Len(idle_queue) + 1) * BeatDuration(bpm)

\* C25 witness: the second beat is about to be emitted a whole period late,
\* for a deadline that is still 2 periods after the start
SecondBeatOnePeriodLate ==
  \E t \in Threads :
    /\ loops[t].pc = "emit"
    /\ Len(idle_queue) = 1
    /\ next_beat_time = 2 * beat_duration
    /\ now = next_beat_time + beat_duration

\* C26: a loop that reads the clock more than a beat period after its
\* deadline restarts the deadline from the clock and goes on to its beat,
\* and the deadline it commits after that beat is the clock value plus one
\* period; no deadline is committed that already lies in the past, so the
\* deadlines that passed during the stall bring no beats of their own.
StallRecovery ==
  [][\A t \in Threads :
       /\ (loops[t].pc = "stall" /\ loops'[t].pc # "stall"
              /\ now > next_beat_time + beat_duration)
            => (next_beat_time' = now /\ loops'[t].pc = "downbeat")
       /\ (loops[t].pc = "advance" /\ loops'[t].pc # "advance")
            => /\ next_beat_time' >= now
               /\ next_beat_time' <= now + beat_duration
               /\ next_beat_time >= now => next_beat_time' = now + beat_duration]_vars

\* C26 witness: the loop slept until 1.75 s, past the deadlines of 0.5, 1.0
\* and 1.5 s, has emitted one beat and committed 2.25 s
RecoveredAfterStall ==
  \E t \in Threads :
    /\ loops[t].pc = "recalc"
    /\ now = 7
    /\ Len(idle_queue) = 1
    /\ next_beat_time = now + beat_duration

\* C28 (the claim as stated): set_time_signature leaves current_beat alone,
\* and every beat handed off carries the downbeat flag of the index handed
\* off under the beats_per_bar stored by then.
SignatureAppliesToNextBeat ==
  [][/\ (\E n \in NumeratorInputs, d \in DenominatorInputs :
            set_time_signature(n, d)) => UNCHANGED current_beat
     /\ \A t \in Threads :
          HandsOff(t)
            => loops[t].is_downbeat = IsDownbeat(current_beat, beats_per_bar)]_vars

\* C29: a loop that finds the stop event set during or right after its wait
\* ends at once, and its step writes neither current_beat nor the deadline
\* nor the beat duration, and hands off no beat.
StopExitsWithoutMutation ==
  [][\A t \in Threads :
       (loops[t].pc \in {"waiting", "check_stop"} /\ stop_event
          /\ loops'[t].pc # loops[t].pc)
         => /\ loops'[t].pc = "dead"
            /\ UNCHANGED <<current_beat, next_beat_time, beat_duration,
                           handoff>>]_vars

\* C29 witness: the wait has timed out, stop() has set the event since, and
\* the loop is about to test it (line 138)
StopSeenAfterWait ==
  /\ cpc = "join"
  /\ stop_event
  /\ thread # NoThread
  /\ loops[thread].pc = "check_stop"
  /\ now >= next_beat_time

\* C31: the retained timestamps are at most max_taps, in non-decreasing
\* order, and get_tap_count() is their number; right after a tap() there is
\* at least one, the newest being that tap's; a tap() that finds max_taps
\* timestamps all inside the timeout retains all but the oldest of them,
\* followed by its own.
WindowBoundedAndOrdered ==
  [][/\ Len(tap_times') <= MaxTaps
     /\ get_tap_count' = Len(tap_times')
     /\ \A i \in 1..(Len(tap_times') - 1) : tap_times'[i] <= tap_times'[i + 1]
     /\ \A gap \in TapGaps :
          tap(gap)
            => /\ get_tap_count' >= 1
               /\ tap_times'[Len(tap_times')] = tap_now'
               /\ (/\ Len(tap_times) = MaxTaps
                   /\ \A i \in DOMAIN tap_times :
                        tap_times[i] > tap_now' - TapTimeout)
                    => tap_times' = Append(Tail(tap_times), tap_now')]_vars

\* C31 witness: a ninth tap inside the timeout has pushed the first one out
NinthTapInsideTimeout ==
  /\ tap_held = MaxTaps
  /\ Len(tap_times) = MaxTaps
  /\ tap_times[1] > 0
  /\ tap_times[1] < tap_times[MaxTaps]

\* C32 (the claim as stated): a tap() at clock value now drops a retained
\* timestamp t if and only if t < now - timeout (with fewer than max_taps
\* retained, so that nothing is dropped for the count).
PrunesOnlyOlderThanTimeout ==
  [][\A gap \in TapGaps :
       (tap(gap) /\ Len(tap_times) < MaxTaps)
         => tap_times' =
              Append(SelectSeq(tap_times,
                               LAMBDA t : ~(t < tap_now' - TapTimeout)),
                     tap_now')]_vars

\* C39: set_tempo, called with an estimate tap() has returned, stores it and
\* returns without raising.
EstimateAcceptedBySetTempo ==
  (tap_result.kind = "int" /\ cpc = "idle")
    => ENABLED (set_tempo(tap_result.value) /\ result' = "ok"
                  /\ bpm' = tap_result.value)

\* C39 witness: slow taps gave the lowest tempo set_tempo accepts
SlowTapsGiveLowerLimit ==
  /\ Len(tap_times) = 2
  /\ tap_times[2] - tap_times[1] > (60 * TapTicksPerSec) \div MinBpm
  /\ tap_result = Estimate(MinBpm)

\* C35 (the claim as stated): once stop() has returned, the sink is not
\* called for any beat: no pending idle source is run by the main loop until
\* start() is called again.
SinkSilentAfterStopReturned ==
  [][StoppedAndReturned
       => ~(\E i \in DOMAIN idle_queue, outcome \in CallbackOutcomes :
              dispatch(i, outcome))]_vars

\* C33 (the claim as stated): a start() made after stop() has returned
\* clears the stop signal, sets is_running, resets current_beat and starts a
\* thread that was not running before; the first beat handed off after such
\* a restart comes from that thread and has index 0.
RestartBeginsAtZero ==
  [][/\ (StoppedAndReturned /\ runs' # runs)
          => /\ ~stop_event'
             /\ is_running'
             /\ current_beat' = 0
             /\ thread' # NoThread
             /\ ~Alive(thread')
             /\ loops'[thread'].pc = "init_read"
     /\ \A t \in Threads :
          (HandsOff(t) /\ awaited = "start" /\ runs > 1)
            => (t = thread /\ current_beat = 0)]_vars

\* C36 (the claim as stated): while the engine is running, the first beat
\* handed off since start() has index 0, and a beat handed off with no
\* start() and no reset_beat_counter() since the previous one has the
\* previous index plus 1.
IndicesCountUpWithinRun ==
  [][\A t \in Threads :
       (HandsOff(t) /\ is_running)
         => /\ awaited = "start" => handoff'.beat = 0
            /\ awaited = "none" => handoff'.beat = handoff.beat + 1]_vars

\* C37 (the claim as stated): when a timing loop hands a beat to the sink,
\* the clock has reached the deadline in force for that beat (after a stall
\* recovery that deadline is the clock value itself).
NoBeatBeforeItsDeadline ==
  [][\A t \in Threads : HandsOff(t) => now >= next_beat_time]_vars

\* C38 (the claim as stated): in a run at constant tempo, the clock value at
\* a hand-off is strictly above the clock value at the hand-off before it.
ClockAdvancesBetweenBeats ==
  [][\A t \in Threads :
       (HandsOff(t) /\ emitted_at >= 0) => now > emitted_at]_vars

\* C40: the durations of two different tempos in [40,240] differ by more
\* than 1 ms, as the product of the two tempos is below 60000; and the step
\* that ends a loop iteration leaves in _beat_duration the value 60 / bpm it
\* computed from the bpm it read.
ToleranceNeverSuppresses ==
  [][/\ beat_duration # Seconds(bpm)
          => /\ ExceedsTolerance(Seconds(bpm), beat_duration)
             /\ bpm * beat_duration.den < 60 * ToleranceDen
     /\ \A t \in Threads :
          (loops[t].pc = "recalc_store" /\ loops'[t].pc = "while")
            => beat_duration' = loops[t].new_duration]_vars

\* C40 witness: the loop read 239, set_tempo(240) stored both its values,
\* and the loop's step then replaced 60/240 by the 60/239 it had computed
ClosestPairStored ==
  /\ loops[1].pc = "while"
  /\ cpc = "idle"
  /\ bpm = MaxBpm
  /\ beat_duration = Seconds(MaxBpm - 1)

\* the longest beat period the caller of LiveSpec can set
LongestPeriod ==
  LET periods == {BeatDuration(b) :
                    b \in {c \in BpmInputs \cup {DefaultBpm} : ValidBpm(c)}}
  IN  CHOOSE p \in periods : \A q \in periods : q <= p

\* the beats whose deadlines lie within the clock of LiveSpec at any tempo
GuaranteedBeats == MaxRunTime \div LongestPeriod

\* C34: in a run, with the clock advancing and the timing thread scheduled,
\* every beat is followed by a next one unless stop() is called, whatever
\* set_tempo, set_time_signature and reset_beat_counter calls are made (for
\* the beats whose deadlines the clock of the model reaches).
BeatAlwaysFollows ==
  \A k \in 0..(GuaranteedBeats - 1) :
    (is_running /\ Len(idle_queue) = k)
      ~> (Len(idle_queue) > k \/ ~is_running)

\* C34 witness: the second beat was handed off after a tempo change, a
\* change of the time signature and a reset of the counter
SecondBeatAfterChanges ==
  /\ is_running
  /\ Len(idle_queue) = 2
  /\ idle_queue[2].beat = 0
  /\ bpm # DefaultBpm
  /\ beats_per_bar # DefaultBeatsPerBar
====
